---- MODULE Spec2Model ----
(***************************************************************************)
(* A model of the status-query server (src/server.js): the VarInt codec    *)
(* and packet framing, the life of one probe (queryMinecraftServer), and   *)
(* the fleet prober with its cache (queryAllServers, the /api routes).     *)
(*                                                                         *)
(* The specifications that share the module:                               *)
(*   SpecProbe  one probe, every socket event and timer of it;             *)
(*   SpecPair   two probes side by side;                                   *)
(*   SpecBatch  one queryAllServers call over every probe outcome;         *)
(*   SpecRank   the ordering of a snapshot;                                *)
(*   Spec       concurrent queryAllServers calls, the clock, the cache     *)
(*              and its invalidation, the mutation handlers;               *)
(*   SpecAdd    POST /api/servers requests in flight together;             *)
(*   SpecCodec  the codec functions on inputs of their own;                *)
(*   SpecPage   the dashboard page (src/js/app.js): its refresh flag,      *)
(*              interval timer and pending fetches.                        *)
(***************************************************************************)
EXTENDS Integers, Sequences, FiniteSets, TLC

VARIABLES
    \* ---- one probe: the closure state of queryMinecraftServer ----
    pc,            \* where the executor is: "idle", "resolving", "wired"
    target,        \* the arguments host / port / name of the call
    serverAddress, \* the address handed to socket.connect
    sock,          \* the state of the net.Socket
    sockTimer,     \* the socket's idle timer (socket.setTimeout) is running
    timeoutId,     \* the hard deadline timer: "none", "armed", "fired", "cleared"
    hasResolved,   \* the closure's flag
    responseData,  \* the result object, mutated by the handlers
    resolved,      \* the values resolve() was called with, in order
    written,       \* the packets written to the socket, in order
    chunks,        \* the data chunks the 'data' handler has processed, in order
    events,        \* the socket events and timers that have fired, in order
    \* ---- the fleet prober ----
    now,           \* Date.now()
    store,         \* the content of servers.json
    serverCache,   \* the module-level cache object
    calls,         \* the queryAllServers calls, by request slot
    reqs,          \* the target-list mutation requests, by request slot
    hist,          \* what has been observed: counters and flags for the properties
    \* ---- beside them ----
    other,         \* the closure state of a second probe running at the same time
    codec,         \* one application of the codec functions: input, output, read back
    page           \* the dashboard page (src/js/app.js): its globals and pending fetches

probeVars == <<pc, target, serverAddress, sock, sockTimer, timeoutId, hasResolved,
               responseData, resolved, written, chunks, events>>
fleetVars == <<now, store, serverCache, calls, reqs, hist>>
sideVars == <<other, codec, page>>
vars == <<probeVars, fleetVars, sideVars>>

(***************************************************************************)
(* 32-bit integer arithmetic of the JavaScript bit operators.  A word is   *)
(* the tuple of its 32 bits, least significant first; the model's integers *)
(* are the signed 32-bit values.                                           *)
(***************************************************************************)
RECURSIVE Pow2(_)
Pow2(n) == IF n = 0 THEN 1 ELSE 2 * Pow2(n - 1)

Half == Pow2(30)   \* 2^30; 2^31 is Half + Half

\* ToInt32 as bits: two's complement of a signed value.
Bits(x) ==
    LET low == IF x >= 0 THEN x ELSE (x + Half) + Half   \* the low 31 bits
    IN  [i \in 1 .. 32 |->
            IF i = 32 THEN (IF x < 0 THEN 1 ELSE 0)
            ELSE (low \div Pow2(i - 1)) % 2]

RECURSIVE SumBits(_, _)
SumBits(w, n) == IF n = 0 THEN 0 ELSE w[n] * Pow2(n - 1) + SumBits(w, n - 1)

\* The signed value of a word.
Signed(w) == IF w[32] = 1 THEN (SumBits(w, 31) - Half) - Half ELSE SumBits(w, 31)

\* a | b
BitOr(a, b) ==
    LET wa == Bits(a)
        wb == Bits(b)
    IN  Signed([i \in 1 .. 32 |-> IF wa[i] = 1 \/ wb[i] = 1 THEN 1 ELSE 0])
\* a << s : the shift count is taken modulo 32
ShiftLeft(a, s) ==
    LET k == s % 32
        wa == Bits(a)
    IN  Signed([i \in 1 .. 32 |-> IF i - k >= 1 THEN wa[i - k] ELSE 0])
\* a >>> 7 : zero-filling, so the result is not negative
ShiftRightU7(a) ==
    LET wa == Bits(a)
    IN  SumBits([i \in 1 .. 32 |-> IF i + 7 <= 32 THEN wa[i + 7] ELSE 0], 31)
\* a & 0x7F
Low7(a) == SumBits(Bits(a), 7)

(***************************************************************************)
(* VarInt codec and packet framing.  Buffers are sequences of bytes;       *)
(* offsets are the 0-based offsets of the code.                            *)
(***************************************************************************)
\* The closure writeVarInt(value) of the connect handler: the bytes of value.
RECURSIVE writeVarIntBytes(_)
writeVarIntBytes(value) ==
    LET temp == Low7(value)          \* value & 0x7F
        rest == ShiftRightU7(value)   \* value >>>= 7
    IN  IF rest # 0
        THEN <<temp + 128>> \o writeVarIntBytes(rest)
        ELSE <<temp>>

\* The loop that never sets the continuation bit.
RECURSIVE writeVarIntNoFlag(_)
writeVarIntNoFlag(value) ==
    LET temp == Low7(value)
        rest == ShiftRightU7(value)
    IN  IF rest # 0
        THEN <<temp>> \o writeVarIntNoFlag(rest)
        ELSE <<temp>>

\* writeVarInt(buffer, value, offset) of the module: the same loop, writing
\* into the buffer; the bytes it writes from offset on.
RECURSIVE writeVarInt(_)
writeVarInt(value) ==
    LET temp == Low7(value)
        rest == ShiftRightU7(value)
    IN  IF rest # 0
        THEN <<temp + 128>> \o writeVarInt(rest)
        ELSE <<temp>>

\* The frame whose length prefix counts the data only.
writePacketDataLength(packetId, data) ==
    writeVarIntBytes(Len(data)) \o writeVarIntBytes(packetId) \o data

\* writePacket(packetId, data)
writePacket(packetId, data) ==
    LET packet == writeVarIntBytes(packetId) \o data
    IN  writeVarIntBytes(Len(packet)) \o packet

\* buffer.writeUInt16BE(port, offset)
UInt16BE(port) == <<port \div 256, port % 256>>

ProtocolVersion == 763

\* const buffer = Buffer.alloc(1024)
BufferSize == 1024

\* What a call that throws RangeError yields in place of its bytes.
RangeError == << 0 - 1 >>

\* createHandshakePacket(host, port); host is the UTF-8 byte sequence. The
\* fields are written into a buffer of BufferSize bytes: hostBuffer.copy
\* truncates silently, and writeUInt16BE / writeUInt8 throw RangeError when
\* the offset after the host leaves no room for the port and the next state.
createHandshakePacket(host, port) ==
    LET head == writeVarInt(ProtocolVersion) \o writeVarInt(Len(host))
    IN  IF Len(head) + Len(host) + 2 + 1 > BufferSize
        THEN RangeError
        ELSE head \o host \o UInt16BE(port) \o writeVarInt(1)

\* createStatusRequestPacket()
createStatusRequestPacket == <<>>

\* readVarInt(buffer, offset): [ok, value, offset]; ok is FALSE when
\* buffer.readUInt8 is asked for an offset past the end (it throws RangeError).
RECURSIVE readVarIntLoop(_, _, _, _)
readVarIntLoop(buffer, offset, result, shift) ==
    IF offset >= Len(buffer)
    THEN [ok |-> FALSE, value |-> 0, offset |-> offset]
    ELSE LET b == buffer[offset + 1]
             r == BitOr(result, ShiftLeft(Low7(b), shift))
         IN  IF b >= 128
             THEN readVarIntLoop(buffer, offset + 1, r, shift + 7)
             ELSE [ok |-> TRUE, value |-> r, offset |-> offset + 1]

readVarInt(buffer, offset) == readVarIntLoop(buffer, offset, 0, 0)

(***************************************************************************)
(* JSON documents.  JSON.parse is the platform's; it is modelled on the    *)
(* documents of the catalogue below (byte for byte) and rejects every      *)
(* other text the model produces: proper prefixes of these documents and   *)
(* the empty text, none of which is JSON.                                  *)
(***************************************************************************)
Undefined == 0 - 1   \* the undefined / null of a numeric field

NoPlayers == [present |-> FALSE, online |-> Undefined, max |-> Undefined]

\* {"players":{"online":5,"max":20}}
DocFull == <<123, 34, 112, 108, 97, 121, 101, 114, 115, 34, 58, 123, 34, 111, 110,
             108, 105, 110, 101, 34, 58, 53, 44, 34, 109, 97, 120, 34, 58, 50, 48,
             125, 125>>
\* {"players":{}}
DocEmptyPlayers == <<123, 34, 112, 108, 97, 121, 101, 114, 115, 34, 58, 123, 125, 125>>
\* {"version":{}}
DocNoPlayers == <<123, 34, 118, 101, 114, 115, 105, 111, 110, 34, 58, 123, 125, 125>>
\* null
DocNull == <<110, 117, 108, 108>>
\* {"players":{"online":5,"max":20}} followed by 100 spaces
DocLong == DocFull \o [i \in 1 .. 100 |-> 32]

JsonParse(text) ==
    IF text = DocFull \/ text = DocLong
    THEN [ok |-> TRUE, truthy |-> TRUE,
          players |-> [present |-> TRUE, online |-> 5, max |-> 20]]
    ELSE IF text = DocEmptyPlayers
    THEN [ok |-> TRUE, truthy |-> TRUE,
          players |-> [present |-> TRUE, online |-> Undefined, max |-> Undefined]]
    ELSE IF text = DocNoPlayers
    THEN [ok |-> TRUE, truthy |-> TRUE, players |-> NoPlayers]
    ELSE IF text = DocNull
    THEN [ok |-> TRUE, truthy |-> FALSE, players |-> NoPlayers]
    ELSE [ok |-> FALSE, truthy |-> FALSE, players |-> NoPlayers]

\* buffer.toString('utf8', start, end): end is clamped to the buffer, and an
\* end at or before start gives the empty string.
BufferSlice(buffer, start, end) ==
    LET e == IF end > Len(buffer) THEN Len(buffer) ELSE end
    IN  IF e <= start THEN <<>> ELSE SubSeq(buffer, start + 1, e)

\* The throw whose message is the same for every failure.
ParseFailedSame(msg) ==
    [ok |-> FALSE, err |-> "json-parse-failed", truthy |-> FALSE, players |-> NoPlayers]

ParseFailed(msg) == [ok |-> FALSE, err |-> msg, truthy |-> FALSE, players |-> NoPlayers]

\* parseResponse(buffer): [ok, err, truthy, players]; ok FALSE is a throw with
\* message err.
parseResponse(buffer) ==
    LET r1 == readVarInt(buffer, 0)
    IN  IF ~r1.ok THEN ParseFailed("out-of-range")
        ELSE LET r2 == readVarInt(buffer, r1.offset)
             IN  IF ~r2.ok THEN ParseFailed("out-of-range")
                 ELSE IF r2.value # 0 THEN ParseFailed("invalid-packet-id")
                 ELSE LET r3 == readVarInt(buffer, r2.offset)
                      IN  IF ~r3.ok THEN ParseFailed("out-of-range")
                          ELSE LET j == JsonParse(BufferSlice(buffer, r3.offset,
                                                              r3.offset + r3.value))
                               IN  IF j.ok
                                   THEN [ok |-> TRUE, err |-> "", truthy |-> j.truthy,
                                         players |-> j.players]
                                   ELSE ParseFailed("json-parse-failed")

(***************************************************************************)
(* One probe: queryMinecraftServer(host, port, name).                      *)
(***************************************************************************)
MaxChunks == 2     \* data chunks delivered to one probe
MaxElapsed == 1    \* largest value of Date.now() - startTime

Elapsed == 0 .. MaxElapsed
Null == Undefined  \* the null of ping and latency

\* The error strings of the code, by the site that builds them.
NoError == [kind |-> "null", msg |-> ""]
ErrTimeout == [kind |-> "timeout", msg |-> ""]              \* '连接超时'
ErrClosed == [kind |-> "closed", msg |-> ""]                \* '连接关闭'
ErrConnection(m) == [kind |-> "connect-error", msg |-> m]   \* '连接错误: ' + err.message
ErrParse(m) == [kind |-> "parse-error", msg |-> m]          \* '解析响应失败: ' + err.message
ErrConnectFailed(m) == [kind |-> "connect-failed", msg |-> m] \* '连接失败: ' + err.message

\* x || 0
OrZero(x) == IF x = Undefined \/ x = Null THEN 0 ELSE x

\* md5(host:port), first 8 hex digits: a function of the pair. The digest is
\* a string and the ids of servers.json are positive numbers; it is coded
\* as a negative number so that the two can be compared and never agree.
RECURSIVE HostCode(_)
HostCode(host) ==
    IF host = <<>> THEN 0 ELSE (HostCode(Tail(host)) * 256 + Head(host)) % 4096

Fingerprint(host, port) == 0 - (1000 + HostCode(host) * 100000 + port)

\* The hosts and ports a probe is asked for; 70000 is no port, and
\* socket.connect throws on it.
ProbeTargets ==
    { [address |-> <<104>>, port |-> 25565, name |-> <<97>>],
      [address |-> <<104>>, port |-> 70000, name |-> <<98>>] }

ConnectThrows(port) == port \notin 0 .. 65535

\* What the remote may send in one 'data' event.
Chunks ==
    { writePacket(0, writeVarIntBytes(Len(DocFull)) \o DocFull),
      writePacket(0, writeVarIntBytes(Len(DocEmptyPlayers)) \o DocEmptyPlayers),
      writePacket(0, writeVarIntBytes(Len(DocNoPlayers)) \o DocNoPlayers),
      writePacket(0, writeVarIntBytes(Len(DocNull)) \o DocNull),
      writePacket(1, writeVarIntBytes(Len(DocFull)) \o DocFull),
      SubSeq(writePacket(0, writeVarIntBytes(Len(DocFull)) \o DocFull), 1, 12),
      <<128>> }

\* const responseData = {...}
InitialResponse(t) ==
    [id |-> Fingerprint(t.address, t.port), name |-> t.name, address |-> t.address,
     port |-> t.port, online |-> FALSE, error |-> NoError, ping |-> Null,
     latency |-> Null, players |-> NoPlayers]

NoResponse == InitialResponse([address |-> <<>>, port |-> 0, name |-> <<>>])

\* The body of the 'data' handler on responseData, given what parseResponse
\* returned or threw; d is Date.now() - startTime.
DataHandled(rd, response, d) ==
    IF ~response.ok THEN [rd EXCEPT !.error = ErrParse(response.err)]
    ELSE IF response.truthy /\ response.players.present
    THEN [rd EXCEPT !.online = TRUE,
                    !.players = [present |-> TRUE,
                                 online |-> OrZero(response.players.online),
                                 max |-> OrZero(response.players.max)],
                    !.ping = OrZero(rd.ping),
                    !.latency = d]
    ELSE rd

DataResponse(rd, data, d) == DataHandled(rd, parseResponse(data), d)

\* The bodies of the resolving handlers on responseData.
TimerResponse(rd) == [rd EXCEPT !.error = ErrTimeout, !.online = FALSE]
ErrorResponse(rd, m) == [rd EXCEPT !.error = ErrConnection(m), !.online = FALSE]
\* The close handler without its default error.
CloseResponseNoDefault(rd) == [rd EXCEPT !.online = FALSE]

CloseResponse(rd) ==
    [rd EXCEPT !.error = IF rd.error = NoError THEN ErrClosed ELSE rd.error,
               !.online = FALSE]
TimeoutResponse(rd) == [rd EXCEPT !.error = ErrTimeout, !.online = FALSE]
ConnectFailedResponse(rd, m) == [rd EXCEPT !.error = ErrConnectFailed(m), !.online = FALSE]

\* resolve(responseData), called from handler `by`.
Resolve(by, rd) == Append(resolved, [by |-> by, value |-> rd])

\* The closure state of a probe whose executor has not started.
IdleProbe ==
    [pc |-> "idle", target |-> [address |-> <<>>, port |-> 0, name |-> <<>>],
     serverAddress |-> [resolved |-> FALSE, of |-> <<>>], sock |-> "new",
     sockTimer |-> FALSE, timeoutId |-> "none", hasResolved |-> FALSE,
     responseData |-> NoResponse, resolved |-> <<>>, written |-> <<>>,
     chunks |-> <<>>, events |-> <<>>]

\* No codec function has been applied.
IdleCodec ==
    [op |-> "none", n |-> 0, id |-> 0, json |-> <<>>, payload |-> <<>>,
     host |-> <<>>, port |-> 0,
     out |-> <<>>, done |-> FALSE,
     read |-> [ok |-> FALSE, value |-> 0, offset |-> 0],
     envelope |-> [length |-> 0, id |-> 0, payload |-> <<>>],
     parsed |-> [ok |-> FALSE, err |-> "", truthy |-> FALSE, players |-> NoPlayers]]

(***************************************************************************)
(* The dashboard page (src/js/app.js): the globals isRefreshing and        *)
(* autoRefreshInterval, the interval timer, the visibility of the document *)
(* and the loadServers / refreshAllServers calls waiting on a fetch.       *)
(***************************************************************************)
MaxFetches == 3     \* fetches issued by the page in one behaviour

\* The page before DOMContentLoaded. inflight holds the calls suspended at
\* an await; timerLive says the interval set by startAutoRefresh still
\* fires; fetches and last record what the calls did.
InitialPage ==
    [loaded |-> FALSE, visibilityState |-> "visible", isRefreshing |-> FALSE,
     autoRefreshInterval |-> 0, timerLive |-> FALSE, inflight |-> <<>>,
     serversData |-> "null", loading |-> "initial", toast |-> "none",
     fetches |-> 0, last |-> "none"]

\* loadServers() with no test of isRefreshing.
loadServersUnguarded(p) ==
    [p EXCEPT !.isRefreshing = TRUE, !.loading = "block",
              !.inflight = Append(@, [fn |-> "loadServers", pc |-> "fetch"]),
              !.fetches = @ + 1, !.last = "issued"]

\* loadServers() up to its first await: return when isRefreshing, else set
\* it, showLoading(true) and fetch /api/servers.
loadServers(p) ==
    IF p.isRefreshing
    THEN [p EXCEPT !.last = "skipped"]
    ELSE [p EXCEPT !.isRefreshing = TRUE, !.loading = "block",
                   !.inflight = Append(@, [fn |-> "loadServers", pc |-> "fetch"]),
                   !.fetches = @ + 1, !.last = "issued"]

\* refreshAllServers() up to its first await: a toast and return when
\* isRefreshing, else set it, toast and POST /api/refresh.
refreshAllServers(p) ==
    IF p.isRefreshing
    THEN [p EXCEPT !.toast = "info", !.last = "skipped"]
    ELSE [p EXCEPT !.isRefreshing = TRUE, !.toast = "info",
                   !.inflight = Append(@, [fn |-> "refreshAllServers", pc |-> "fetch"]),
                   !.fetches = @ + 1, !.last = "issued"]

\* startAutoRefresh(): clear the interval if one is recorded, set a new one.
startAutoRefresh(p) ==
    [p EXCEPT !.autoRefreshInterval = @ + 1, !.timerLive = TRUE]

\* The sequence without its i-th element.
Without(seq, i) == SubSeq(seq, 1, i - 1) \o SubSeq(seq, i + 1, Len(seq))

\* The catch and finally blocks of call c, and its return.
Failed(p, i) ==
    LET c == p.inflight[i]
    IN  [p EXCEPT !.toast = "error",
                  !.loading = IF c.fn = "loadServers" THEN "none" ELSE @,
                  !.isRefreshing = FALSE,
                  !.inflight = Without(@, i)]

\* The rest of the try block of call c after response.json(), its finally
\* block, and its return.
Succeeded(p, i) ==
    LET c == p.inflight[i]
    IN  [p EXCEPT !.serversData = "data",
                  !.toast = IF c.fn = "refreshAllServers" THEN "success" ELSE @,
                  !.loading = IF c.fn = "loadServers" THEN "none" ELSE @,
                  !.isRefreshing = FALSE,
                  !.inflight = Without(@, i)]

\* DOMContentLoaded: initializeApp().
InitializeApp ==
    /\ ~page.loaded
    /\ page' = startAutoRefresh(loadServers([page EXCEPT !.loaded = TRUE]))
    /\ UNCHANGED <<probeVars, fleetVars, other, codec>>

\* The document is hidden or shown; handleVisibilityChange() once the
\* listener is registered.
VisibilityChange ==
    /\ page.fetches < MaxFetches
    /\ LET shown == IF page.visibilityState = "visible" THEN "hidden" ELSE "visible"
           p == [page EXCEPT !.visibilityState = shown]
       IN  page' = IF ~page.loaded THEN p
                   ELSE IF shown = "visible" THEN loadServers(p)
                   ELSE [p EXCEPT !.timerLive = FALSE]
    /\ UNCHANGED <<probeVars, fleetVars, other, codec>>

\* The interval set by startAutoRefresh fires.
AutoRefreshTick ==
    /\ page.timerLive
    /\ page.fetches < MaxFetches
    /\ page' = IF ~page.isRefreshing /\ page.visibilityState = "visible"
               THEN loadServers(page)
               ELSE page
    /\ UNCHANGED <<probeVars, fleetVars, other, codec>>

\* loadServers() from the retry button, or after an add or a delete.
LoadServersCall ==
    /\ page.loaded
    /\ page.fetches < MaxFetches
    /\ page' = loadServers(page)
    /\ UNCHANGED <<probeVars, fleetVars, other, codec>>

\* F5 or the refresh button: refreshAllServers().
RefreshAllCall ==
    /\ page.loaded
    /\ page.fetches < MaxFetches
    /\ page' = refreshAllServers(page)
    /\ UNCHANGED <<probeVars, fleetVars, other, codec>>

\* The fetch of call i settles: rejected or not ok, the call goes through
\* catch and finally; ok, it awaits response.json().
FetchSettles(i, ok) ==
    /\ i \in 1 .. Len(page.inflight)
    /\ page.inflight[i].pc = "fetch"
    /\ page' = IF ok THEN [page EXCEPT !.inflight[i].pc = "json"]
               ELSE Failed(page, i)
    /\ UNCHANGED <<probeVars, fleetVars, other, codec>>

\* response.json() of call i settles; a throw while rendering is a failure.
JsonSettles(i, ok) ==
    /\ i \in 1 .. Len(page.inflight)
    /\ page.inflight[i].pc = "json"
    /\ page' = IF ok THEN Succeeded(page, i) ELSE Failed(page, i)
    /\ UNCHANGED <<probeVars, fleetVars, other, codec>>

NextPage ==
    \/ InitializeApp
    \/ VisibilityChange
    \/ AutoRefreshTick
    \/ LoadServersCall
    \/ RefreshAllCall
    \/ \E i \in 1 .. MaxFetches, ok \in BOOLEAN : FetchSettles(i, ok)
    \/ \E i \in 1 .. MaxFetches, ok \in BOOLEAN : JsonSettles(i, ok)

InitProbe ==
    /\ other = IdleProbe
    /\ page = InitialPage
    /\ pc = "idle"
    /\ target = [address |-> <<>>, port |-> 0, name |-> <<>>]
    /\ serverAddress = [resolved |-> FALSE, of |-> <<>>]
    /\ sock = "new"
    /\ sockTimer = FALSE
    /\ timeoutId = "none"
    /\ hasResolved = FALSE
    /\ responseData = NoResponse
    /\ resolved = <<>>
    /\ written = <<>>
    /\ chunks = <<>>
    /\ events = <<>>

\* Lines 59-65: the executor starts, creates the socket, sets its idle
\* timeout and awaits resolveHostname.
StartProbe(t) ==
    /\ pc = "idle"
    /\ pc' = "resolving"
    /\ target' = t
    /\ sockTimer' = TRUE
    /\ UNCHANGED <<serverAddress, sock, timeoutId, hasResolved, responseData,
                   resolved, written, chunks, events>>
    /\ UNCHANGED <<fleetVars, sideVars>>

\* The lookup that hands back nothing when it fails.
resolveHostnameNoFallback(hostname, ok) ==
    [resolved |-> ok, of |-> IF ok THEN hostname ELSE <<>>]

\* resolveHostname: the address on success, the hostname itself on failure.
resolveHostname(hostname, ok) == [resolved |-> ok, of |-> hostname]

\* Lines 67-200, run when dns.lookup calls back: the result object, the
\* deadline timer, the handlers, and socket.connect with its catch.
DnsCallback(ok) ==
    /\ pc = "resolving"
    /\ pc' = "wired"
    /\ serverAddress' = resolveHostname(target.address, ok)
    /\ IF ConnectThrows(target.port)
       THEN /\ events' = events \o <<IF ok THEN "dns-ok" ELSE "dns-failed", "connect-failed">>
            /\ hasResolved' = TRUE
            /\ responseData' = ConnectFailedResponse(InitialResponse(target), "bad-port")
            /\ timeoutId' = "cleared"
            /\ resolved' = Resolve("connect-failed", responseData')
            /\ UNCHANGED <<sock, sockTimer>>
       ELSE /\ events' = Append(events, IF ok THEN "dns-ok" ELSE "dns-failed")
            /\ responseData' = InitialResponse(target)
            /\ timeoutId' = "armed"
            /\ sock' = "connecting"
            /\ sockTimer' = TRUE
            /\ UNCHANGED <<hasResolved, resolved>>
    /\ UNCHANGED <<target, written, chunks>>
    /\ UNCHANGED <<fleetVars, sideVars>>

\* The connect handler that sends the status request before the handshake.
SocketConnectReversed(d) ==
    /\ sock = "connecting"
    /\ sock' = "open"
    /\ sockTimer' = TRUE
    /\ responseData' = [responseData EXCEPT !.ping = d]
    /\ written' = written \o
           << writePacket(0, createStatusRequestPacket),
              writePacket(0, createHandshakePacket(target.address, target.port)) >>
    /\ events' = Append(events, "connect")
    /\ UNCHANGED <<pc, target, serverAddress, timeoutId, hasResolved, resolved, chunks>>
    /\ UNCHANGED <<fleetVars, sideVars>>

\* socket.on('connect')
SocketConnect(d) ==
    /\ sock = "connecting"
    /\ sock' = "open"
    /\ sockTimer' = TRUE
    /\ responseData' = [responseData EXCEPT !.ping = d]
    /\ written' = written \o
           << writePacket(0, createHandshakePacket(target.address, target.port)),
              writePacket(0, createStatusRequestPacket) >>
    /\ events' = Append(events, "connect")
    /\ UNCHANGED <<pc, target, serverAddress, timeoutId, hasResolved, resolved, chunks>>
    /\ UNCHANGED <<fleetVars, sideVars>>

\* socket.on('data'): parse, then socket.end().
SocketData(data, d) ==
    /\ sock \in {"open", "ended"}
    /\ Len(chunks) < MaxChunks
    /\ d >= OrZero(responseData.ping)
    /\ responseData' = DataResponse(responseData, data, d)
    /\ sock' = "ended"
    /\ sockTimer' = TRUE
    /\ chunks' = Append(chunks, data)
    /\ events' = Append(events, "data")
    /\ UNCHANGED <<pc, target, serverAddress, timeoutId, hasResolved, resolved, written>>
    /\ UNCHANGED <<fleetVars, sideVars>>

\* socket.on('error'); the socket is destroyed by the platform after it.
SocketError(m) ==
    /\ sock \in {"connecting", "open", "ended"}
    /\ sock' = "errored"
    /\ sockTimer' = FALSE
    /\ events' = Append(events, "error")
    /\ IF ~hasResolved
       THEN /\ hasResolved' = TRUE
            /\ responseData' = ErrorResponse(responseData, m)
            /\ resolved' = Resolve("error", responseData')
       ELSE UNCHANGED <<hasResolved, responseData, resolved>>
    /\ UNCHANGED <<pc, target, serverAddress, timeoutId, written, chunks>>
    /\ UNCHANGED <<fleetVars, sideVars>>

\* The close handler without its hasResolved guard.
SocketCloseUnguarded ==
    /\ sock \in {"open", "ended", "errored", "destroyed"}
    /\ sock' = "closed"
    /\ sockTimer' = FALSE
    /\ events' = Append(events, "close")
    /\ hasResolved' = TRUE
    /\ responseData' = CloseResponse(responseData)
    /\ timeoutId' = IF timeoutId = "armed" THEN "cleared" ELSE timeoutId
    /\ resolved' = Resolve("close", responseData')
    /\ UNCHANGED <<pc, target, serverAddress, written, chunks>>
    /\ UNCHANGED <<fleetVars, sideVars>>

\* socket.on('close'): after the remote's end, after an error, after destroy().
SocketClose ==
    /\ sock \in {"open", "ended", "errored", "destroyed"}
    /\ sock' = "closed"
    /\ sockTimer' = FALSE
    /\ events' = Append(events, "close")
    /\ IF ~hasResolved
       THEN /\ hasResolved' = TRUE
            /\ responseData' = CloseResponse(responseData)
            /\ timeoutId' = IF timeoutId = "armed" THEN "cleared" ELSE timeoutId
            /\ resolved' = Resolve("close", responseData')
       ELSE UNCHANGED <<hasResolved, responseData, timeoutId, resolved>>
    /\ UNCHANGED <<pc, target, serverAddress, written, chunks>>
    /\ UNCHANGED <<fleetVars, sideVars>>

\* The timeout handler that cancels the other probe's socket with its own.
SocketTimeoutCancelsAll ==
    /\ sockTimer
    /\ sock \in {"new", "connecting", "open", "ended"}
    /\ sockTimer' = FALSE
    /\ events' = Append(events, IF pc = "wired" THEN "timeout" ELSE "timeout-unheard")
    /\ IF pc = "wired" /\ ~hasResolved
       THEN /\ hasResolved' = TRUE
            /\ sock' = "destroyed"
            /\ responseData' = TimeoutResponse(responseData)
            /\ resolved' = Resolve("timeout", responseData')
            /\ other' = [other EXCEPT !.sock = "destroyed"]
       ELSE UNCHANGED <<hasResolved, sock, responseData, resolved, other>>
    /\ UNCHANGED <<pc, target, serverAddress, timeoutId, written, chunks>>
    /\ UNCHANGED <<fleetVars, codec, page>>

\* The socket's idle timer fires and 'timeout' is emitted; the listener is
\* registered only once the executor is past the name resolution.
SocketTimeout ==
    /\ sockTimer
    /\ sock \in {"new", "connecting", "open", "ended"}
    /\ sockTimer' = FALSE
    /\ events' = Append(events, IF pc = "wired" THEN "timeout" ELSE "timeout-unheard")
    /\ IF pc = "wired" /\ ~hasResolved
       THEN /\ hasResolved' = TRUE
            /\ sock' = "destroyed"
            /\ responseData' = TimeoutResponse(responseData)
            /\ resolved' = Resolve("timeout", responseData')
       ELSE UNCHANGED <<hasResolved, sock, responseData, resolved>>
    /\ UNCHANGED <<pc, target, serverAddress, timeoutId, written, chunks>>
    /\ UNCHANGED <<fleetVars, sideVars>>

\* The deadline callback that destroys the socket and forgets to resolve.
DeadlineTimerSilent ==
    /\ timeoutId = "armed"
    /\ timeoutId' = "fired"
    /\ events' = Append(events, "deadline")
    /\ IF ~hasResolved
       THEN /\ sock' = IF sock \in {"connecting", "open", "ended"} THEN "destroyed" ELSE sock
            /\ sockTimer' = FALSE
       ELSE UNCHANGED <<sock, sockTimer>>
    /\ UNCHANGED <<hasResolved, responseData, resolved>>
    /\ UNCHANGED <<pc, target, serverAddress, written, chunks>>
    /\ UNCHANGED <<fleetVars, sideVars>>

\* The callback of timeoutId = setTimeout(..., timeout + 1000).
DeadlineTimer ==
    /\ timeoutId = "armed"
    /\ timeoutId' = "fired"
    /\ events' = Append(events, "deadline")
    /\ IF ~hasResolved
       THEN /\ hasResolved' = TRUE
            /\ sock' = IF sock \in {"connecting", "open", "ended"} THEN "destroyed" ELSE sock
            /\ sockTimer' = FALSE
            /\ responseData' = TimerResponse(responseData)
            /\ resolved' = Resolve("deadline", responseData')
       ELSE UNCHANGED <<hasResolved, sock, sockTimer, responseData, resolved>>
    /\ UNCHANGED <<pc, target, serverAddress, written, chunks>>
    /\ UNCHANGED <<fleetVars, sideVars>>

(***************************************************************************)
(* The results one probe can resolve with, from the handler bodies above:  *)
(* the result object before the connect, after it, and after each data     *)
(* chunk, as left by the handler that resolves.                            *)
(***************************************************************************)
\* parseResponse on each chunk, computed once.
\* A function as its table of values: comparing it makes the evaluator
\* enumerate it, once.
Table(f) == IF f = <<>> THEN f ELSE f

Parsed == Table([ch \in Chunks |-> parseResponse(ch)])

Connected(t) == { [InitialResponse(t) EXCEPT !.ping = d] : d \in Elapsed }

RECURSIVE AfterData(_, _)
AfterData(t, n) ==
    IF n = 0 THEN Connected(t)
    ELSE { DataHandled(x[1], Parsed[x[2]], x[3]) :
             x \in { y \in AfterData(t, n - 1) \X Chunks \X Elapsed :
                       y[3] >= OrZero(y[1].ping) } }

Received(t) == UNION { AfterData(t, n) : n \in 1 .. MaxChunks }

ProbeResults(t) ==
    IF ConnectThrows(t.port)
    THEN { ConnectFailedResponse(InitialResponse(t), "bad-port") }
    ELSE LET connected == Connected(t)
             received == Received(t)
         IN  { TimerResponse(r) : r \in {InitialResponse(t)} \cup connected \cup received }
             \cup { ErrorResponse(r, "econn") :
                      r \in {InitialResponse(t)} \cup connected \cup received }
             \cup { CloseResponse(r) : r \in connected \cup received }

\* The servers a stored list may hold, and the results of their probes,
\* computed once.
Names == { <<97>>, <<98>>, <<99>> }
Hosts == { <<104>>, <<105>> }
Ports == { 25565, 70000 }
TargetUniverse == [address : Hosts, port : Ports, name : Names]

ResultsOf == Table([t \in TargetUniverse |-> ProbeResults(t)])

(***************************************************************************)
(* The fleet prober: servers.json, the clock, serverCache and the calls of *)
(* queryAllServers.                                                        *)
(***************************************************************************)
ttl == 30000        \* serverCache.ttl
MaxCalls == 2       \* queryAllServers calls in flight at once
MaxTargets == 2     \* length of the stored list
MaxTicks == 2       \* clock steps
MaxStarts == 2      \* queryAllServers calls started in one behaviour
MaxUpdates == 1     \* update requests started in one behaviour
MaxReqs == 1        \* target-list mutation requests in flight at once
TickMs == 15000     \* length of one clock step
StartNow == 60000   \* Date.now() when the process starts

Calls == 1 .. MaxCalls
Reqs == 1 .. MaxReqs

\* The stored list at start: two targets, their names out of order.
InitialStore ==
    << [id |-> 1, name |-> <<98>>, address |-> <<104>>, port |-> 25565],
       [id |-> 2, name |-> <<97>>, address |-> <<105>>, port |-> 25565] >>

\* serverCache.data = {}
EmptyData ==
    [snapshot |-> FALSE, servers |-> <<>>, total |-> 0, online |-> 0,
     totalPlayers |-> 0, timestamp |-> 0]

IdleCall ==
    [pc |-> "idle", useCache |-> FALSE, now |-> 0, read |-> "no", servers |-> <<>>,
     queries |-> <<>>, hit |-> FALSE, ret |-> EmptyData,
     afterInvalidate |-> FALSE, overlapWrite |-> FALSE,
     list |-> 0, entered |-> 0, retList |-> 0]

IdleReq == [pc |-> "idle", id |-> 0, body |-> <<>>, servers |-> <<>>, wrote |-> 0]

\* A promise of queryServer: pending, or settled with its value.
Pending == [settled |-> FALSE, value |-> NoResponse]

InitFleet ==
    /\ now = StartNow
    /\ serverCache = [data |-> EmptyData, lastUpdated |-> 0]
    /\ calls = [c \in Calls |-> IdleCall]
    /\ reqs = [q \in Reqs |-> IdleReq]
    /\ hist = [invalidated |-> FALSE, started |-> 0, updates |-> 0,
               writes |-> 0, completed |-> 0, cacheList |-> 0,
               allowed |-> MaxUpdates, added |-> <<>>, res |-> 0]

\* The arguments queryServer passes on: server.address, server.port, server.name.
ProbeTarget(server) ==
    [address |-> server.address, port |-> server.port, name |-> server.name]

\* queryServer: { ...server, ...result, ... }: the result's fields replace the
\* server's of the same name.
queryServer(server, result) ==
    [k \in DOMAIN server \cup DOMAIN result |->
        IF k \in DOMAIN result THEN result[k] ELSE server[k]]

\* a.localeCompare(b) on names of lower-case letters: -1, 0 or 1.
RECURSIVE localeCompare(_, _)
localeCompare(a, b) ==
    IF a = <<>> THEN (IF b = <<>> THEN 0 ELSE -1)
    ELSE IF b = <<>> THEN 1
    ELSE IF Head(a) < Head(b) THEN -1
    ELSE IF Head(a) > Head(b) THEN 1
    ELSE localeCompare(Tail(a), Tail(b))

\* s.players?.online || 0
PlayersOnline(s) == IF s.players.present THEN OrZero(s.players.online) ELSE 0

\* The comparator that looks at the names only.
ComparatorByName(a, b) == localeCompare(a.name, b.name)

\* The comparator of results.sort.
Comparator(a, b) ==
    IF a.online /\ ~b.online THEN -1
    ELSE IF ~a.online /\ b.online THEN 1
    ELSE IF a.online /\ b.online THEN b.players.online - a.players.online
    ELSE localeCompare(a.name, b.name)

\* Array.prototype.sort with the comparator: a stable sort.
RECURSIVE Insert(_, _)
Insert(sorted, x) ==
    IF sorted = <<>> THEN <<x>>
    ELSE LET last == sorted[Len(sorted)]
         IN  IF Comparator(last, x) <= 0
             THEN Append(sorted, x)
             ELSE Append(Insert(SubSeq(sorted, 1, Len(sorted) - 1), x), last)

RECURSIVE Sort(_)
Sort(results) ==
    IF results = <<>> THEN <<>>
    ELSE Insert(Sort(SubSeq(results, 1, Len(results) - 1)), results[Len(results)])

RECURSIVE SumPlayers(_)
SumPlayers(results) ==
    IF results = <<>> THEN 0
    ELSE PlayersOnline(Head(results)) + SumPlayers(Tail(results))

OnlineCount(results) == Cardinality({ i \in 1 .. Len(results) : results[i].online })

\* The snapshot that lists only the servers that are online.
SnapshotOnlineOnly(sortedResults, t) ==
    LET up == SelectSeq(sortedResults, LAMBDA r : r.online)
    IN  [snapshot |-> TRUE, servers |-> up, total |-> Len(up),
         online |-> OnlineCount(up), totalPlayers |-> SumPlayers(up), timestamp |-> t]

\* The snapshot whose player total counts the online servers only.
SnapshotPlayersOfOnline(sortedResults, t) ==
    [snapshot |-> TRUE, servers |-> sortedResults, total |-> Len(sortedResults),
     online |-> OnlineCount(sortedResults),
     totalPlayers |-> SumPlayers(SelectSeq(sortedResults, LAMBDA r : r.online)),
     timestamp |-> t]

\* The object assigned to serverCache.data.
Snapshot(sortedResults, t) ==
    [snapshot |-> TRUE, servers |-> sortedResults, total |-> Len(sortedResults),
     online |-> OnlineCount(sortedResults),
     totalPlayers |-> SumPlayers(sortedResults), timestamp |-> t]

InFlight(c) == calls[c].pc \in {"reading", "probing"}

\* A request takes the first free slot.
FreeSlot(c) == calls[c].pc = "idle" /\ \A d \in 1 .. c - 1 : calls[d].pc # "idle"

\* The cache check that still serves a snapshot whose age equals the ttl.
QueryAllEnterInclusive(c, useCache) ==
    IF useCache /\ (now - serverCache.lastUpdated) <= ttl
    THEN [IdleCall EXCEPT !.pc = "done", !.useCache = useCache, !.now = now,
                          !.hit = TRUE, !.ret = serverCache.data,
                          !.afterInvalidate = hist.invalidated,
                          !.entered = hist.completed, !.retList = hist.cacheList]
    ELSE [IdleCall EXCEPT !.pc = "reading", !.useCache = useCache, !.now = now,
                          !.afterInvalidate = hist.invalidated,
                          !.entered = hist.completed]

\* queryAllServers up to its first await: the cache check.
QueryAllEnter(c, useCache) ==
    IF useCache /\ (now - serverCache.lastUpdated) < ttl
    THEN [IdleCall EXCEPT !.pc = "done", !.useCache = useCache, !.now = now,
                          !.hit = TRUE, !.ret = serverCache.data,
                          !.afterInvalidate = hist.invalidated,
                          !.entered = hist.completed, !.retList = hist.cacheList]
    ELSE [IdleCall EXCEPT !.pc = "reading", !.useCache = useCache, !.now = now,
                          !.afterInvalidate = hist.invalidated,
                          !.entered = hist.completed]

\* GET /api/servers: queryAllServers(useCache).
GetServers(c, useCache) ==
    /\ FreeSlot(c)
    /\ hist.started < MaxStarts
    /\ calls' = [calls EXCEPT ![c] = QueryAllEnter(c, useCache)]
    /\ hist' = [hist EXCEPT !.invalidated = FALSE, !.started = @ + 1]
    /\ UNCHANGED <<now, store, serverCache, reqs>>
    /\ UNCHANGED <<probeVars, sideVars>>

\* POST /api/refresh: serverCache.lastUpdated = 0, then queryAllServers(false).
Refresh(c) ==
    /\ FreeSlot(c)
    /\ hist.started < MaxStarts
    /\ serverCache' = [serverCache EXCEPT !.lastUpdated = 0]
    /\ calls' = [calls EXCEPT ![c] =
           [IdleCall EXCEPT !.pc = "reading", !.useCache = FALSE, !.now = now,
                            !.afterInvalidate = TRUE,
                            !.entered = hist.completed]]
    /\ hist' = [hist EXCEPT !.invalidated = FALSE, !.started = @ + 1]
    /\ UNCHANGED <<now, store, reqs>>
    /\ UNCHANGED <<probeVars, sideVars>>

\* getServerList resolves (the empty list when servers.json cannot be read),
\* and servers.map(queryServer) starts one probe per server.
GetServerList(c, ok) ==
    /\ calls[c].pc = "reading"
    /\ LET servers == IF ok THEN store ELSE <<>>
       IN  calls' = [calls EXCEPT ![c].pc = "probing",
                                  ![c].read = IF ok THEN "ok" ELSE "failed",
                                  ![c].servers = servers,
                                  ![c].list = hist.writes,
                                  ![c].queries = [i \in 1 .. Len(servers) |-> Pending]]
    /\ UNCHANGED <<now, store, serverCache, reqs, hist>>
    /\ UNCHANGED <<probeVars, sideVars>>

\* The probe of server i of call c resolves with r, and queryServer returns.
ProbeSettles(c, i, r) ==
    /\ calls[c].pc = "probing"
    /\ i \in 1 .. Len(calls[c].queries)
    /\ ~calls[c].queries[i].settled
    /\ calls' = [calls EXCEPT ![c].queries[i] =
           [settled |-> TRUE, value |-> queryServer(calls[c].servers[i], r)]]
    /\ UNCHANGED <<now, store, serverCache, reqs, hist>>
    /\ UNCHANGED <<probeVars, sideVars>>

AllSettled(c) == \A i \in 1 .. Len(calls[c].queries) : calls[c].queries[i].settled

\* The snapshot built without waiting for the probes that are still pending.
QueryAllFinishEarly(c) ==
    /\ calls[c].pc = "probing"
    /\ LET results == [i \in 1 .. Len(calls[c].queries) |-> calls[c].queries[i].value]
           data == Snapshot(Sort(results), calls[c].now)
       IN  /\ serverCache' = [data |-> data, lastUpdated |-> calls[c].now]
           /\ calls' = [d \in Calls |->
                  IF d = c THEN [calls[c] EXCEPT !.pc = "done", !.ret = data,
                                                 !.retList = calls[c].list]
                  ELSE IF InFlight(d) /\ ~calls[d].useCache /\ ~calls[c].useCache
                  THEN [calls[d] EXCEPT !.overlapWrite = TRUE]
                  ELSE calls[d]]
    /\ hist' = [hist EXCEPT !.cacheList = calls[c].list]
    /\ UNCHANGED <<now, store, reqs>>
    /\ UNCHANGED <<probeVars, sideVars>>

\* Promise.all resolves: sort, build the snapshot, write the cache, return.
QueryAllFinish(c) ==
    /\ calls[c].pc = "probing"
    /\ AllSettled(c)
    /\ LET results == [i \in 1 .. Len(calls[c].queries) |-> calls[c].queries[i].value]
           data == Snapshot(Sort(results), calls[c].now)
       IN  /\ serverCache' = [data |-> data, lastUpdated |-> calls[c].now]
           /\ calls' = [d \in Calls |->
                  IF d = c THEN [calls[c] EXCEPT !.pc = "done", !.ret = data,
                                                 !.retList = calls[c].list]
                  ELSE IF InFlight(d) /\ ~calls[d].useCache /\ ~calls[c].useCache
                  THEN [calls[d] EXCEPT !.overlapWrite = TRUE]
                  ELSE calls[d]]
    /\ hist' = [hist EXCEPT !.cacheList = calls[c].list]
    /\ UNCHANGED <<now, store, reqs>>
    /\ UNCHANGED <<probeVars, sideVars>>

\* The route handler sends the response; the slot is free again.
Respond(c) ==
    /\ calls[c].pc = "done"
    /\ calls' = [calls EXCEPT ![c] = IdleCall]
    /\ UNCHANGED <<now, store, serverCache, reqs, hist>>
    /\ UNCHANGED <<probeVars, sideVars>>

\* Time passes.
Tick ==
    /\ now < StartNow + MaxTicks * TickMs
    /\ now' = now + TickMs
    /\ UNCHANGED <<store, serverCache, calls, reqs, hist>>
    /\ UNCHANGED <<probeVars, sideVars>>

(***************************************************************************)
(* PUT /api/server/:id: read the list, merge the body into the record,     *)
(* save, invalidate the cache, respond.                                    *)
(***************************************************************************)
\* The names a request may give a server.
NewNames == { <<99>> }   \* a subset of Names

\* The ids a request may name: one of the stored list, one not in it.
RequestIds == { 1, 9 }

\* servers.findIndex(s => s.id == id): 0 stands for -1.
FindIndex(servers, id) ==
    IF \E i \in 1 .. Len(servers) : servers[i].id = id
    THEN CHOOSE i \in 1 .. Len(servers) :
            /\ servers[i].id = id
            /\ \A j \in 1 .. i - 1 : servers[j].id # id
    ELSE 0

\* The request arrives; the handler awaits getServerList.
UpdateStart(q, id, name) ==
    /\ reqs[q].pc = "idle"
    /\ hist.updates < hist.allowed
    /\ reqs' = [reqs EXCEPT ![q] = [IdleReq EXCEPT !.pc = "reading", !.id = id,
                                                    !.body = name]]
    /\ hist' = [hist EXCEPT !.updates = @ + 1]
    /\ UNCHANGED <<now, store, serverCache, calls>>
    /\ UNCHANGED <<probeVars, sideVars>>

\* getServerList resolves; 404 when the id is not in the list, else the
\* record is replaced and saveServerList is awaited.
UpdateRead(q, ok) ==
    /\ reqs[q].pc = "reading"
    /\ LET servers == IF ok THEN store ELSE <<>>
           index == FindIndex(servers, reqs[q].id)
       IN  IF index = 0
           THEN /\ reqs' = [reqs EXCEPT ![q] = IdleReq]
                /\ hist' = [hist EXCEPT !.res = 404]
           ELSE /\ reqs' = [reqs EXCEPT ![q].pc = "saving",
                                        ![q].servers =
                                            [servers EXCEPT ![index].name = reqs[q].body]]
                /\ hist' = hist
    /\ UNCHANGED <<now, store, serverCache, calls>>
    /\ UNCHANGED <<probeVars, sideVars>>

\* saveServerList: the file is written, or the write fails and false is
\* returned (the handler does not look at it).
UpdateSave(q, ok) ==
    /\ reqs[q].pc = "saving"
    /\ store' = IF ok THEN reqs[q].servers ELSE store
    /\ reqs' = [reqs EXCEPT ![q].pc = "saved",
                            ![q].wrote = IF ok THEN hist.writes + 1 ELSE 0]
    /\ hist' = [hist EXCEPT !.writes = IF ok THEN @ + 1 ELSE @]
    /\ UNCHANGED <<now, serverCache, calls>>
    /\ UNCHANGED <<probeVars, sideVars>>

\* serverCache.lastUpdated = 0; res.json({ success: true, ... }).
UpdateFinish(q) ==
    /\ reqs[q].pc = "saved"
    /\ serverCache' = [serverCache EXCEPT !.lastUpdated = 0]
    /\ reqs' = [reqs EXCEPT ![q] = IdleReq]
    /\ hist' = [hist EXCEPT !.invalidated = TRUE,
                            !.completed = IF reqs[q].wrote > @ THEN reqs[q].wrote ELSE @,
                            !.res = 200]
    /\ UNCHANGED <<now, store, calls>>
    /\ UNCHANGED <<probeVars, sideVars>>

(***************************************************************************)
(* POST /api/servers: validate the body, read the list, push the new       *)
(* record with the next id, save, invalidate the cache, respond.           *)
(***************************************************************************)
\* The name and address of a request body; the empty name is rejected.
AddNames == NewNames \cup { <<>> }
AddHost == <<105>>       \* an element of Hosts

\* servers.length > 0 ? Math.max(...servers.map(s => s.id)) + 1 : 1
NewId(servers) ==
    IF Len(servers) > 0
    THEN (CHOOSE m \in { servers[i].id : i \in 1 .. Len(servers) } :
             \A i \in 1 .. Len(servers) : servers[i].id <= m) + 1
    ELSE 1

\* The request arrives: 400 on an empty name, else getServerList is awaited.
AddStart(q, name) ==
    /\ reqs[q].pc = "idle"
    /\ hist.updates < hist.allowed
    /\ reqs' = IF name = <<>> THEN reqs
               ELSE [reqs EXCEPT ![q] = [IdleReq EXCEPT !.pc = "add-reading",
                                                         !.body = name]]
    /\ hist' = [hist EXCEPT !.updates = @ + 1,
                            !.res = IF name = <<>> THEN 400 ELSE @]
    /\ UNCHANGED <<now, store, serverCache, calls>>
    /\ UNCHANGED <<probeVars, sideVars>>

\* getServerList resolves (the empty list on a failed read); the new record
\* is pushed and saveServerList is awaited.
AddRead(q, ok) ==
    /\ reqs[q].pc = "add-reading"
    /\ LET servers == IF ok THEN store ELSE <<>>
           newServer == [id |-> NewId(servers), name |-> reqs[q].body,
                         address |-> AddHost, port |-> 25565]
       IN  reqs' = [reqs EXCEPT ![q].pc = "add-saving",
                                ![q].id = newServer.id,
                                ![q].servers = Append(servers, newServer)]
    /\ UNCHANGED <<now, store, serverCache, calls, hist>>
    /\ UNCHANGED <<probeVars, sideVars>>

\* saveServerList: written, or false returned (the handler does not look).
AddSave(q, ok) ==
    /\ reqs[q].pc = "add-saving"
    /\ store' = IF ok THEN reqs[q].servers ELSE store
    /\ reqs' = [reqs EXCEPT ![q].pc = "add-saved",
                            ![q].wrote = IF ok THEN hist.writes + 1 ELSE 0]
    /\ hist' = [hist EXCEPT !.writes = IF ok THEN @ + 1 ELSE @]
    /\ UNCHANGED <<now, serverCache, calls>>
    /\ UNCHANGED <<probeVars, sideVars>>

\* serverCache.lastUpdated = 0; res.json({ success: true, ... }).
AddFinish(q) ==
    /\ reqs[q].pc = "add-saved"
    /\ serverCache' = [serverCache EXCEPT !.lastUpdated = 0]
    /\ reqs' = [reqs EXCEPT ![q] = IdleReq]
    /\ hist' = [hist EXCEPT !.invalidated = TRUE,
                            !.completed = IF reqs[q].wrote > @ THEN reqs[q].wrote ELSE @,
                            !.added = Append(@, reqs[q].servers[Len(reqs[q].servers)]),
                            !.res = 200]
    /\ UNCHANGED <<now, store, calls>>
    /\ UNCHANGED <<probeVars, sideVars>>

(***************************************************************************)
(* DELETE /api/server/:id: read the list, splice the record out, save;     *)
(* a failed save is thrown (500), a good one invalidates the cache.        *)
(***************************************************************************)
\* servers.splice(serverIndex, 1)
Splice(servers, index) ==
    SubSeq(servers, 1, index - 1) \o SubSeq(servers, index + 1, Len(servers))

DeleteStart(q, id) ==
    /\ reqs[q].pc = "idle"
    /\ hist.updates < hist.allowed
    /\ reqs' = [reqs EXCEPT ![q] = [IdleReq EXCEPT !.pc = "del-reading", !.id = id]]
    /\ hist' = [hist EXCEPT !.updates = @ + 1]
    /\ UNCHANGED <<now, store, serverCache, calls>>
    /\ UNCHANGED <<probeVars, sideVars>>

\* getServerList resolves; 404 when the id is not in the list.
DeleteRead(q, ok) ==
    /\ reqs[q].pc = "del-reading"
    /\ LET servers == IF ok THEN store ELSE <<>>
           serverIndex == FindIndex(servers, reqs[q].id)
       IN  IF serverIndex = 0
           THEN /\ reqs' = [reqs EXCEPT ![q] = IdleReq]
                /\ hist' = [hist EXCEPT !.res = 404]
           ELSE /\ reqs' = [reqs EXCEPT ![q].pc = "del-saving",
                                        ![q].servers = Splice(servers, serverIndex)]
                /\ hist' = hist
    /\ UNCHANGED <<now, store, serverCache, calls>>
    /\ UNCHANGED <<probeVars, sideVars>>

DeleteSave(q, ok) ==
    /\ reqs[q].pc = "del-saving"
    /\ store' = IF ok THEN reqs[q].servers ELSE store
    /\ reqs' = [reqs EXCEPT ![q].pc = "del-saved",
                            ![q].wrote = IF ok THEN hist.writes + 1 ELSE 0]
    /\ hist' = [hist EXCEPT !.writes = IF ok THEN @ + 1 ELSE @]
    /\ UNCHANGED <<now, serverCache, calls>>
    /\ UNCHANGED <<probeVars, sideVars>>

\* if (!saveResult) throw: 500 and the cache is left alone; else
\* serverCache.lastUpdated = 0 and the success response.
DeleteFinish(q) ==
    /\ reqs[q].pc = "del-saved"
    /\ serverCache' = IF reqs[q].wrote = 0 THEN serverCache
                      ELSE [serverCache EXCEPT !.lastUpdated = 0]
    /\ reqs' = [reqs EXCEPT ![q] = IdleReq]
    /\ hist' = IF reqs[q].wrote = 0 THEN [hist EXCEPT !.res = 500]
               ELSE [hist EXCEPT !.invalidated = TRUE,
                                 !.completed = IF reqs[q].wrote > @ THEN reqs[q].wrote ELSE @,
                                 !.res = 200]
    /\ UNCHANGED <<now, store, calls>>
    /\ UNCHANGED <<probeVars, sideVars>>

(***************************************************************************)
(* The specifications.                                                     *)
(***************************************************************************)
\* The probe outcomes the concurrent specification draws from: the remote
\* at the first host sends the full status and closes, the one at any other
\* host is silent until the deadline.
HeardOrSilent(t) ==
    IF ConnectThrows(t.port) THEN ProbeResults(t)
    ELSE IF t.address = <<104>>
    THEN { CloseResponse(DataResponse([InitialResponse(t) EXCEPT !.ping = 0],
               writePacket(0, writeVarIntBytes(Len(DocFull)) \o DocFull), 0)) }
    ELSE { TimerResponse(InitialResponse(t)) }

FleetOutcomes == Table([t \in TargetUniverse |-> HeardOrSilent(t)])

\* The outcomes of the probe of server i of call c.
FleetOutcomesOf(c, i) ==
    IF i \in 1 .. Len(calls[c].servers)
    THEN FleetOutcomes[ProbeTarget(calls[c].servers[i])]
    ELSE {}

ProbeResultsOf(c, i) ==
    IF i \in 1 .. Len(calls[c].servers)
    THEN ResultsOf[ProbeTarget(calls[c].servers[i])]
    ELSE {}

Init == InitProbe /\ InitFleet /\ store = InitialStore /\ codec = IdleCodec

Next ==
    \/ \E c \in Calls, useCache \in BOOLEAN : GetServers(c, useCache)
    \/ \E c \in Calls : Refresh(c)
    \/ \E c \in Calls, ok \in BOOLEAN : GetServerList(c, ok)
    \/ \E c \in Calls, i \in 1 .. MaxTargets + MaxUpdates :
          \E r \in FleetOutcomesOf(c, i) : ProbeSettles(c, i, r)
    \/ \E c \in Calls : QueryAllFinish(c)
    \/ \E c \in Calls : Respond(c)
    \/ \E q \in Reqs, id \in RequestIds, name \in NewNames : UpdateStart(q, id, name)
    \/ \E q \in Reqs, ok \in BOOLEAN : UpdateRead(q, ok)
    \/ \E q \in Reqs, ok \in BOOLEAN : UpdateSave(q, ok)
    \/ \E q \in Reqs : UpdateFinish(q)
    \/ \E q \in Reqs, name \in AddNames : AddStart(q, name)
    \/ \E q \in Reqs, ok \in BOOLEAN : AddRead(q, ok)
    \/ \E q \in Reqs, ok \in BOOLEAN : AddSave(q, ok)
    \/ \E q \in Reqs : AddFinish(q)
    \/ \E q \in Reqs, id \in RequestIds : DeleteStart(q, id)
    \/ \E q \in Reqs, ok \in BOOLEAN : DeleteRead(q, ok)
    \/ \E q \in Reqs, ok \in BOOLEAN : DeleteSave(q, ok)
    \/ \E q \in Reqs : DeleteFinish(q)
    \/ Tick

Spec == Init /\ [][Next]_vars

\* One probe.
NextProbe ==
    \/ \E t \in ProbeTargets : StartProbe(t)
    \/ \E ok \in BOOLEAN : DnsCallback(ok)
    \/ \E d \in Elapsed : SocketConnect(d)
    \/ \E data \in Chunks, d \in Elapsed : SocketData(data, d)
    \/ SocketError("econn")
    \/ SocketClose
    \/ SocketTimeout
    \/ DeadlineTimer

SpecProbe == Init /\ [][NextProbe]_vars

\* dns.lookup calls back, and an armed timer fires.
SpecProbeFair ==
    /\ Init
    /\ [][NextProbe]_vars
    /\ WF_vars(\E ok \in BOOLEAN : DnsCallback(ok))
    /\ WF_vars(DeadlineTimer)

\* One queryAllServers(false) call over every outcome of its probes.
BatchStores ==
    { InitialStore,
      << [id |-> 1, name |-> <<97>>, address |-> <<104>>, port |-> 25565],
         [id |-> 2, name |-> <<97>>, address |-> <<105>>, port |-> 70000] >>,
      << >> }

InitBatch ==
    /\ InitProbe
    /\ InitFleet
    /\ store \in BatchStores
    /\ codec = IdleCodec

NextBatch ==
    \/ GetServers(1, FALSE)
    \/ \E ok \in BOOLEAN : GetServerList(1, ok)
    \/ \E i \in 1 .. MaxTargets : \E r \in ProbeResultsOf(1, i) : ProbeSettles(1, i, r)
    \/ QueryAllFinish(1)

SpecBatch == InitBatch /\ [][NextBatch]_vars

\* The sort of queryAllServers over result lists of every kind its
\* comparator distinguishes. A result is online in the object the 'data'
\* handler has filled from a parsed status (5 players, or 0 from an empty
\* players object), offline after the deadline, and offline with players
\* after the 'close' that follows a parsed status.
RankOutcomes(t) ==
    LET wired == [InitialResponse(t) EXCEPT !.ping = 0]
        full == DataResponse(wired,
                    writePacket(0, writeVarIntBytes(Len(DocFull)) \o DocFull), 0)
        empty == DataResponse(wired,
                    writePacket(0, writeVarIntBytes(Len(DocEmptyPlayers)) \o DocEmptyPlayers), 0)
    IN  { full, empty, TimerResponse(InitialResponse(t)), CloseResponse(full) }

\* Lists of three targets, their names in every order.
RankTargets == 3

RankNames == { 96 + i : i \in 1 .. RankTargets }

RankOutcomesTable ==
    Table([t \in [address : Hosts, port : {25565}, name : { <<n>> : n \in RankNames }]
             |-> RankOutcomes(t)])

RankOutcomesOf(c, i) ==
    IF i \in 1 .. Len(calls[c].servers)
    THEN RankOutcomesTable[ProbeTarget(calls[c].servers[i])]
    ELSE {}

RankStores ==
    { [i \in 1 .. RankTargets |->
          [id |-> i, name |-> <<names[i]>>,
           address |-> IF i = 2 THEN <<105>> ELSE <<104>>, port |-> 25565]] :
        names \in { f \in [1 .. RankTargets -> RankNames] :
                      \A i, j \in 1 .. RankTargets : i # j => f[i] # f[j] } }

InitRank ==
    /\ InitProbe
    /\ InitFleet
    /\ store \in RankStores
    /\ codec = IdleCodec

NextRank ==
    \/ GetServers(1, FALSE)
    \/ GetServerList(1, TRUE)
    \/ \E i \in 1 .. RankTargets : \E r \in RankOutcomesOf(1, i) : ProbeSettles(1, i, r)
    \/ QueryAllFinish(1)

SpecRank == InitRank /\ [][NextRank]_vars

(***************************************************************************)
(* Two probes of one batch: servers.map(server => queryServer(server))     *)
(* starts them in turn and the event loop runs their handlers one at a     *)
(* time. The probe variables hold the closure whose handler runs next,     *)
(* other holds the second closure; Switch turns to the second probe.       *)
(***************************************************************************)
Active ==
    [pc |-> pc, target |-> target, serverAddress |-> serverAddress, sock |-> sock,
     sockTimer |-> sockTimer, timeoutId |-> timeoutId, hasResolved |-> hasResolved,
     responseData |-> responseData, resolved |-> resolved, written |-> written,
     chunks |-> chunks, events |-> events]

Switch ==
    /\ other' = Active
    /\ pc' = other.pc
    /\ target' = other.target
    /\ serverAddress' = other.serverAddress
    /\ sock' = other.sock
    /\ sockTimer' = other.sockTimer
    /\ timeoutId' = other.timeoutId
    /\ hasResolved' = other.hasResolved
    /\ responseData' = other.responseData
    /\ resolved' = other.resolved
    /\ written' = other.written
    /\ chunks' = other.chunks
    /\ events' = other.events
    /\ UNCHANGED <<fleetVars, codec, page>>

\* The two targets of the batch, and what their servers may send.
PairTargets ==
    { [address |-> <<104>>, port |-> 25565, name |-> <<97>>],
      [address |-> <<105>>, port |-> 25565, name |-> <<98>>] }

PairChunks ==
    { writePacket(0, writeVarIntBytes(Len(DocFull)) \o DocFull), <<128>> }

NextPair ==
    \/ \E t \in PairTargets : t # other.target /\ StartProbe(t)
    \/ \E ok \in BOOLEAN : DnsCallback(ok)
    \/ SocketConnect(0)
    \/ \E data \in PairChunks : Len(chunks) = 0 /\ SocketData(data, 0)
    \/ SocketError("econn")
    \/ SocketClose
    \/ SocketTimeout
    \/ DeadlineTimer
    \/ Switch

SpecPair == Init /\ [][NextPair]_vars

SpecPage == Init /\ [][NextPage]_vars

(***************************************************************************)
(* POST /api/servers requests in flight together, the file reads and       *)
(* writes all succeeding.                                                  *)
(***************************************************************************)
MaxAdds == 2

\* The requests that can be in flight together.
AddReqs == 1 .. MaxAdds

\* The names the requests carry, the empty one (400) among them.
PostNames == { << 96 + i >> : i \in 1 .. MaxAdds + 1 } \cup { <<>> }

InitAdd ==
    /\ InitProbe
    /\ codec = IdleCodec
    /\ now = StartNow
    /\ store = InitialStore
    /\ serverCache = [data |-> EmptyData, lastUpdated |-> 0]
    /\ calls = [c \in Calls |-> IdleCall]
    /\ reqs = [q \in AddReqs |-> IdleReq]
    /\ hist = [invalidated |-> FALSE, started |-> 0, updates |-> 0,
               writes |-> 0, completed |-> 0, cacheList |-> 0,
               allowed |-> MaxAdds, added |-> <<>>, res |-> 0]

NextAdd ==
    \/ \E q \in AddReqs, name \in PostNames : AddStart(q, name)
    \/ \E q \in AddReqs : AddRead(q, TRUE)
    \/ \E q \in AddReqs : AddSave(q, TRUE)
    \/ \E q \in AddReqs : AddFinish(q)

SpecAdd == InitAdd /\ [][NextAdd]_vars

(***************************************************************************)
(* The codec functions applied to inputs of their own: writeVarInt and     *)
(* readVarInt, writePacket and parseResponse, createHandshakePacket.       *)
(***************************************************************************)
VarIntSmall == 300

\* Every small value and the values around each change of length.
VarIntInputs ==
    (0 .. VarIntSmall)
        \cup { 16383, 16384, 25565, 65535, 2097151, 2097152, 268435455, 268435456,
                2147483646, 2147483647 }

FrameIds == { 0, 1, 127, 128, 300 }

\* JSON texts, a text cut short, and the empty text.
FrameDocs ==
    { DocFull, DocEmptyPlayers, DocNoPlayers, DocNull, DocLong,
      SubSeq(DocFull, 1, 10), <<>> }

HandshakeHosts ==
    { <<>>, <<104>>, <<104, 105>>, [i \in 1 .. 130 |-> 104],
      [i \in 1 .. BufferSize - 7 |-> 104], [i \in 1 .. BufferSize - 6 |-> 104] }

HandshakePorts == { 0, 255, 256, 25565, 65535 }

CodecInputs ==
    { [IdleCodec EXCEPT !.op = "varint", !.n = n] : n \in VarIntInputs }
        \cup { [IdleCodec EXCEPT !.op = "frame", !.id = x[1], !.json = x[2],
                                  !.payload = writeVarIntBytes(Len(x[2])) \o x[2]] :
                  x \in FrameIds \X FrameDocs }
        \cup { [IdleCodec EXCEPT !.op = "handshake", !.host = x[1], !.port = x[2]] :
                  x \in HandshakeHosts \X HandshakePorts }

\* What parseResponse reads before the JSON: the declared length, the
\* packet id, and the bytes that follow them.
Envelope(buffer) ==
    LET r1 == readVarInt(buffer, 0)
        r2 == readVarInt(buffer, r1.offset)
    IN  [length |-> r1.value, id |-> r2.value,
         payload |-> SubSeq(buffer, r2.offset + 1, Len(buffer))]

VarIntWrite ==
    /\ codec.op = "varint" /\ codec.out = <<>>
    /\ codec' = [codec EXCEPT !.out = writeVarInt(codec.n)]
    /\ UNCHANGED <<probeVars, fleetVars, other, page>>

VarIntRead ==
    /\ codec.op = "varint" /\ codec.out # <<>> /\ ~codec.done
    /\ codec' = [codec EXCEPT !.read = readVarInt(codec.out, 0), !.done = TRUE]
    /\ UNCHANGED <<probeVars, fleetVars, other, page>>

FramePacket ==
    /\ codec.op = "frame" /\ codec.out = <<>>
    /\ codec' = [codec EXCEPT !.out = writePacket(codec.id, codec.payload)]
    /\ UNCHANGED <<probeVars, fleetVars, other, page>>

ParseFrame ==
    /\ codec.op = "frame" /\ codec.out # <<>> /\ ~codec.done
    /\ codec' = [codec EXCEPT !.envelope = Envelope(codec.out),
                              !.parsed = parseResponse(codec.out),
                              !.done = TRUE]
    /\ UNCHANGED <<probeVars, fleetVars, other, page>>

BuildHandshake ==
    /\ codec.op = "handshake" /\ ~codec.done
    /\ codec' = [codec EXCEPT !.out = createHandshakePacket(codec.host, codec.port),
                              !.done = TRUE]
    /\ UNCHANGED <<probeVars, fleetVars, other, page>>

InitCodec ==
    /\ InitProbe
    /\ InitFleet
    /\ store = InitialStore
    /\ codec \in CodecInputs

NextCodec ==
    \/ VarIntWrite
    \/ VarIntRead
    \/ FramePacket
    \/ ParseFrame
    \/ BuildHandshake

SpecCodec == InitCodec /\ [][NextCodec]_vars

(***************************************************************************)
(* Properties of one probe (SpecProbe, SpecProbeFair).                     *)
(***************************************************************************)
\* The handlers that may resolve, as they appear in events.
TerminalEvents == {"deadline", "timeout", "error", "close", "connect-failed"}

Terminals == SelectSeq(events, LAMBDA e : e \in TerminalEvents)

\* The chunk parsed and carried a players field.
Successful(chunk) ==
    Parsed[chunk].ok /\ Parsed[chunk].truthy /\ Parsed[chunk].players.present

\* C1: a probe whose first (and only) data chunk parsed with a players
\* field, and which resolves from the 'close' that follows socket.end(),
\* resolves online with the players and the latency of that chunk.
C1_OnlineAfterSuccessfulData ==
    (/\ Len(resolved) >= 1
     /\ Len(chunks) = 1
     /\ Successful(chunks[1])
     /\ resolved[1].by = "close")
    => /\ resolved[1].value.online = TRUE
       /\ resolved[1].value.players.present
       /\ resolved[1].value.players.online = OrZero(Parsed[chunks[1]].players.online)
       /\ resolved[1].value.players.max = OrZero(Parsed[chunks[1]].players.max)
       /\ resolved[1].value.latency # Null

\* C2: every resolved result is online with a players pair, after a chunk
\* that parsed with a players field, or offline with an error that is not
\* null.
C2_ResultShapes ==
    \A i \in 1 .. Len(resolved) :
        LET v == resolved[i].value
        IN  \/ /\ v.online
               /\ v.players.present
               /\ v.players.online # Undefined
               /\ v.players.max # Undefined
               /\ \E k \in 1 .. Len(chunks) : Successful(chunks[k])
            \/ /\ ~v.online
               /\ v.error # NoError

\* A probe that received the full status has resolved from 'close'.
C2_Witness ==
    /\ Len(resolved) = 1
    /\ resolved[1].by = "close"
    /\ Len(chunks) >= 1
    /\ Successful(chunks[1])
    /\ resolved[1].value.error = ErrClosed

Quiet == \A i \in 1 .. Len(events) : events[i] \notin {"data", "error", "close"}

\* C4: every started probe resolves; one whose socket.connect was accepted
\* and that hears no data, error or close resolves offline with the timeout
\* error, its socket destroyed.
C4_EventuallyResolves ==
    /\ (pc # "idle") ~> hasResolved
    /\ [](hasResolved /\ Quiet /\ ~ConnectThrows(target.port)
            => /\ Len(resolved) = 1
               /\ resolved[1].value.online = FALSE
               /\ resolved[1].value.error = ErrTimeout
               /\ sock = "destroyed")

\* The deadline timer resolved a probe whose socket connected and stayed silent.
C4_Witness ==
    /\ hasResolved
    /\ Quiet
    /\ Len(resolved) = 1
    /\ resolved[1].by = "deadline"
    /\ "connect" \in { events[i] : i \in 1 .. Len(events) }

\* C5: the deadline timer is running while the probe awaits the name
\* resolution.
C5_DeadlineRunsWhileResolving == pc = "resolving" => timeoutId = "armed"

(***************************************************************************)
(* Properties of the fleet prober (SpecBatch, Spec).                       *)
(***************************************************************************)
\* The positions of the results of a snapshot that come from server sv.
ResultsFor(data, sv) ==
    { j \in 1 .. Len(data.servers) :
        /\ data.servers[j].address = sv.address
        /\ data.servers[j].port = sv.port
        /\ data.servers[j].name = sv.name }

\* C6: a queryAllServers call that read the list returns a snapshot with
\* exactly one result per stored target and total the length of the list,
\* whatever the probes resolved with; an offline result carries its error.
C6_OneResultPerTarget ==
    (calls[1].pc = "done" /\ calls[1].read = "ok") =>
        LET data == calls[1].ret
        IN  /\ data.snapshot
            /\ data.total = Len(store)
            /\ Len(data.servers) = Len(store)
            /\ \A i \in 1 .. Len(store) : Cardinality(ResultsFor(data, store[i])) = 1
            /\ \A j \in 1 .. Len(data.servers) :
                  \/ data.servers[j].online
                  \/ data.servers[j].error # NoError
            /\ serverCache.data = data

\* A batch of two probes that failed in different ways has returned.
C6_Witness ==
    /\ calls[1].pc = "done"
    /\ calls[1].read = "ok"
    /\ Len(calls[1].ret.servers) = 2
    /\ \E i, j \in 1 .. 2 :
          /\ calls[1].ret.servers[i].error.kind = "connect-failed"
          /\ calls[1].ret.servers[j].error.kind = "parse-error"

\* The snapshots a reader can hold: the cached one and the returned ones.
Observed ==
    { serverCache.data } \cup { calls[c].ret : c \in { d \in Calls : calls[d].pc = "done" } }

RECURSIVE PlayersOver(_, _)
PlayersOver(data, n) ==
    IF n = 0 THEN 0
    ELSE (IF data.servers[n].players.present /\ data.servers[n].players.online > 0
          THEN data.servers[n].players.online ELSE 0) + PlayersOver(data, n - 1)

\* C7: every snapshot in the cache or returned to a caller agrees with its
\* own results: total, online count and player total; every returned value
\* is a snapshot.
C7_SnapshotConsistent ==
    /\ \A data \in Observed :
          data.snapshot =>
             /\ data.total = Len(data.servers)
             /\ data.online = Cardinality({ j \in 1 .. Len(data.servers) :
                                              data.servers[j].online = TRUE })
             /\ data.totalPlayers = PlayersOver(data, Len(data.servers))
    /\ \A c \in Calls : calls[c].pc = "done" => calls[c].ret.snapshot

\* A cached snapshot of two results with players counted.
C7_Witness ==
    /\ serverCache.data.snapshot
    /\ Len(serverCache.data.servers) = 2
    /\ serverCache.data.totalPlayers > 0
    /\ \E c \in Calls : calls[c].pc = "done" /\ calls[c].hit

\* The step in which call c enters queryAllServers with useCache = true.
EntersCached(c) ==
    /\ calls[c].pc = "idle"
    /\ calls'[c].pc # "idle"
    /\ calls'[c].useCache

\* C8: a queryAllServers(true) call made while the cached age is under the
\* ttl returns the cached snapshot as it is, reads no list, starts no probe
\* and leaves the cache alone; one made at an age of the ttl or more goes on
\* to read the list, and has one probe per server it read.
C8_CacheHit ==
    /\ [][\A c \in Calls :
            EntersCached(c) =>
               IF now - serverCache.lastUpdated < ttl
               THEN /\ calls'[c].pc = "done"
                    /\ calls'[c].hit
                    /\ calls'[c].ret = serverCache.data
                    /\ calls'[c].ret.snapshot
                    /\ calls'[c].read = "no"
                    /\ calls'[c].queries = <<>>
                    /\ serverCache' = serverCache
               ELSE /\ calls'[c].pc = "reading"
                    /\ ~calls'[c].hit]_vars
    /\ [](\A c \in Calls :
            (calls[c].pc \in {"probing", "done"} /\ ~calls[c].hit) =>
               /\ calls[c].read # "no"
               /\ Len(calls[c].queries) = Len(calls[c].servers))

\* A call was answered from the cache.
C8_Witness ==
    \E c \in Calls :
        /\ calls[c].pc = "done"
        /\ calls[c].hit
        /\ calls[c].useCache
        /\ calls[c].ret.snapshot
        /\ calls[c].now > calls[c].ret.timestamp

\* C9: the first queryAllServers call that starts after an invalidation is
\* not answered from the cache.
C9_FirstCallAfterInvalidateBypasses ==
    \A c \in Calls : (calls[c].pc = "done" /\ calls[c].afterInvalidate) => ~calls[c].hit

\* C10: of two queryAllServers(false) calls in flight together, at most one
\* writes the cache.
C10_NoOverlappingWrites ==
    \A c \in Calls : ~(calls[c].pc = "done" /\ ~calls[c].hit /\ calls[c].overlapWrite)

\* C11: a queryAllServers(true) call that starts after a mutation of the
\* stored list has been saved and answered does not return a snapshot that
\* was computed from the list as it was before that mutation.
C11_NoPreMutationSnapshot ==
    \A c \in Calls :
        (calls[c].pc = "done" /\ calls[c].useCache /\ calls[c].ret.snapshot)
            => calls[c].retList >= calls[c].entered

\* The results of a snapshot, with the position each has.
ResultIndex(data) == 1 .. Len(data.servers)

\* C12: every result of a returned snapshot carries the id of exactly one
\* target of the list that was probed, the target it was produced from, and
\* no two results carry the same id.
C12_ResultIdIsTargetId ==
    (calls[1].pc = "done" /\ calls[1].read = "ok") =>
        LET data == calls[1].ret
            list == calls[1].servers
        IN  /\ \A j \in ResultIndex(data) :
                  /\ Cardinality({ i \in 1 .. Len(list) : list[i].id = data.servers[j].id }) = 1
                  /\ \E i \in 1 .. Len(list) :
                        /\ list[i].id = data.servers[j].id
                        /\ list[i].address = data.servers[j].address
                        /\ list[i].port = data.servers[j].port
            /\ \A j, k \in ResultIndex(data) :
                  j # k => data.servers[j].id # data.servers[k].id

(***************************************************************************)
(* Properties of the ranking (SpecRank).                                   *)
(***************************************************************************)
\* C13: in the results of a snapshot every online result precedes every
\* offline one, and players.online does not increase along the online ones.
C13_OnlineFirstByPlayers ==
    calls[1].pc = "done" =>
        LET rs == calls[1].ret.servers
        IN  \A j, k \in 1 .. Len(rs) :
                j < k =>
                    /\ ~(~rs[j].online /\ rs[k].online)
                    /\ (rs[j].online /\ rs[k].online)
                          => rs[j].players.online >= rs[k].players.online

\* An offline result probed first, and online results of 0 and of 5
\* players, have been ranked 5, 0, offline.
C13_Witness ==
    /\ calls[1].pc = "done"
    /\ ~calls[1].queries[1].value.online
    /\ calls[1].queries[2].value.online
    /\ calls[1].queries[2].value.players.online = 0
    /\ calls[1].queries[3].value.online
    /\ calls[1].queries[3].value.players.online = 5
    /\ calls[1].ret.servers = << calls[1].queries[3].value, calls[1].queries[2].value,
                                 calls[1].queries[1].value >>

C15_ReadFailureFails ==
    calls[1].read = "failed" =>
        /\ ~(calls[1].pc = "done" /\ calls[1].ret.snapshot)
        /\ ~serverCache.data.snapshot

Happened(e) == \E i \in 1 .. Len(events) : events[i] = e

\* C16: a probe that resolves with the connection-closed error has received
\* no data chunk.
C16_ClosedOnlyBeforeData ==
    (Len(resolved) >= 1 /\ resolved[1].value.error = ErrClosed) => chunks = <<>>

\* C17: a probe whose first data chunk failed to parse, and which resolves
\* from the 'close' or 'error' event that follows, resolves offline with the
\* parse error.
C17_ParseErrorKept ==
    (/\ Len(resolved) >= 1
     /\ Len(chunks) >= 1
     /\ ~Parsed[chunks[1]].ok
     /\ resolved[1].by \in {"close", "error"})
    => /\ ~resolved[1].value.online
       /\ resolved[1].value.error.kind = "parse-error"

\* C18: after a failed lookup the executor is past the name resolution with
\* the hostname itself as the address to connect to, nothing is resolved by
\* the failure, and a resolution that follows comes from a socket event or
\* a timer.
C18_LookupFailureFallsBack ==
    Happened("dns-failed") =>
        /\ pc = "wired"
        /\ serverAddress = [resolved |-> FALSE, of |-> target.address]
        /\ ~ConnectThrows(target.port) => (sock # "new" /\ timeoutId # "none")
        /\ hasResolved =>
              /\ Terminals # <<>>
              /\ resolved[1].by = Terminals[1]
              /\ resolved[1].value.error.kind
                    \in {"timeout", "closed", "connect-error", "parse-error", "connect-failed"}

\* A probe whose lookup failed has connected, and resolved from 'close'.
C18_Witness ==
    /\ Happened("dns-failed")
    /\ Happened("connect")
    /\ target.address # <<>>
    /\ Len(resolved) = 1
    /\ resolved[1].by = "close"

\* C19: nothing is written before 'connect'; the connect step writes the
\* framed handshake and then the framed empty status request, both of packet
\* id 0, in one step and before any data arrived; nothing is written later.
C19_TwoPacketsOnConnect ==
    /\ [](/\ ~Happened("connect") => written = <<>>
          /\ Happened("connect") =>
                /\ Len(written) = 2
                /\ written[2] = <<1, 0>>
                /\ Len(written[1]) > 2
                /\ written[1][1] = Len(written[1]) - 1
                /\ written[1][2] = 0
                /\ SubSeq(written[1], 3, 4) = <<251, 5>>
                /\ written[1][Len(written[1])] = 1)
    /\ [][written' # written =>
             /\ written = <<>>
             /\ Len(written') = 2
             /\ chunks = <<>> /\ chunks' = <<>>
             /\ ~Happened("connect")]_vars

\* Both packets are out and a data chunk has arrived since.
C19_Witness ==
    /\ Happened("connect")
    /\ Len(written) = 2
    /\ Len(chunks) >= 1

\* C20: the step that builds and caches the snapshot is taken with every
\* probe of the batch settled, and the snapshot holds, for each probe, the
\* value it settled with.
C20_SnapshotAfterAllSettled ==
    [][\A c \in Calls :
          (calls[c].pc = "probing" /\ calls'[c].pc = "done") =>
             /\ \A i \in 1 .. Len(calls[c].queries) : calls[c].queries[i].settled
             /\ calls'[c].queries = calls[c].queries
             /\ Len(calls'[c].ret.servers) = Len(calls[c].queries)
             /\ \A i \in 1 .. Len(calls[c].queries) :
                   \E j \in 1 .. Len(calls'[c].ret.servers) :
                      calls'[c].ret.servers[j] = calls[c].queries[i].value
             /\ serverCache'.data = calls'[c].ret]_vars

\* A batch of two probes that settled differently has produced its snapshot.
C20_Witness ==
    /\ calls[1].pc = "done"
    /\ Len(calls[1].queries) = 2
    /\ calls[1].queries[1].settled
    /\ calls[1].queries[2].settled
    /\ calls[1].queries[1].value.error # calls[1].queries[2].value.error
    /\ serverCache.data = calls[1].ret

(***************************************************************************)
(* Properties of the cache's clock (Spec).                                 *)
(***************************************************************************)
\* The step in which call c stores its snapshot.
Stores(c) == calls[c].pc = "probing" /\ calls'[c].pc = "done"

\* C21: a snapshot is stored with the time of storing as its cache time, so
\* that it is served for the whole ttl from then on.
C21_StoredWithTimeOfStoring ==
    [][\A c \in Calls : Stores(c) => serverCache'.lastUpdated = now]_vars

\* C23: a data chunk that arrives after the first one leaves the probe's
\* result as it was, and nothing changes a result once it is resolved.
C23_FirstChunkOnly ==
    [][/\ (Len(chunks) >= 1 /\ Len(chunks') > Len(chunks)) => responseData' = responseData
       /\ (hasResolved /\ pc' # "idle") => responseData' = responseData]_vars

\* C28: a step that is not an invalidation does not lower
\* serverCache.lastUpdated, and a cached snapshot is not replaced by the
\* snapshot of a call that started before the call that produced it.
C28_CacheNeverGoesBack ==
    [][/\ serverCache'.lastUpdated # 0 => serverCache'.lastUpdated >= serverCache.lastUpdated
       /\ (serverCache.data.snapshot /\ serverCache'.data # serverCache.data)
             => serverCache'.data.timestamp >= serverCache.data.timestamp]_vars

\* C29: in a returned snapshot an offline result has no players field or
\* players.online = 0.
C29_OfflineHasNoPlayers ==
    calls[1].pc = "done" =>
        \A j \in 1 .. Len(calls[1].ret.servers) :
            LET r == calls[1].ret.servers[j]
            IN  ~r.online => (~r.players.present \/ r.players.online = 0)

(***************************************************************************)
(* Properties of two probes running together (SpecPair).                   *)
(***************************************************************************)
\* C22: a handler of one probe leaves the result, the resolved flag, the
\* resolved values and the socket of the other probe as they were; the only
\* step that exchanges them is the event loop turning to the other probe.
C22_ProbesIndependent ==
    [][\/ (other' = Active /\ Active' = other)
       \/ /\ other'.responseData = other.responseData
          /\ other'.hasResolved = other.hasResolved
          /\ other'.resolved = other.resolved
          /\ other'.sock = other.sock
          /\ other'.timeoutId = other.timeoutId]_vars

\* One probe has timed out and destroyed its socket while the other one is
\* connected and unresolved.
C22_Witness ==
    /\ Len(resolved) = 1
    /\ resolved[1].by = "timeout"
    /\ sock = "destroyed"
    /\ other.pc = "wired"
    /\ other.sock = "open"
    /\ ~other.hasResolved
    /\ other.target # target

(***************************************************************************)
(* Properties of the codec (SpecCodec).                                    *)
(***************************************************************************)
\* The number whose 7-bit groups, least significant first, are the low
\* seven bits of the bytes.
RECURSIVE GroupsValue(_)
GroupsValue(bytes) ==
    IF bytes = <<>> THEN 0 ELSE (Head(bytes) % 128) + 128 * GroupsValue(Tail(bytes))

\* C24: readVarInt on the bytes of writeVarInt(n) returns n and the offset
\* past the last byte; every byte but the last has its high bit set, the
\* last has not, and the 7-bit groups spell n least significant first.
C24_VarIntRoundTrip ==
    (codec.op = "varint" /\ codec.done) =>
        /\ codec.read.ok
        /\ codec.read.value = codec.n
        /\ codec.read.offset = Len(codec.out)
        /\ \A i \in 1 .. Len(codec.out) - 1 : codec.out[i] \in 128 .. 255
        /\ codec.out[Len(codec.out)] \in 0 .. 127
        /\ GroupsValue(codec.out) = codec.n

\* The largest value has been written in five bytes and read back.
C24_Witness ==
    /\ codec.op = "varint"
    /\ codec.done
    /\ codec.n = 2147483647
    /\ Len(codec.out) = 5

\* C25: the frame of (id, payload) declares the length of VarInt(id) and
\* payload together, and reading it back gives that length, the id and the
\* payload; for id 0 and a payload VarInt(len(json)) || json with json a
\* JSON text, parseResponse returns the value of json.
C25_FramingRoundTrip ==
    (codec.op = "frame" /\ codec.done) =>
        /\ codec.envelope.length = Len(writeVarInt(codec.id)) + Len(codec.payload)
        /\ codec.envelope.length + Len(writeVarInt(codec.envelope.length)) = Len(codec.out)
        /\ codec.envelope.id = codec.id
        /\ codec.envelope.payload = codec.payload
        /\ (codec.id = 0 /\ JsonParse(codec.json).ok) =>
              /\ codec.parsed.ok
              /\ codec.parsed.truthy = JsonParse(codec.json).truthy
              /\ codec.parsed.players = JsonParse(codec.json).players

\* A frame with a two-byte length and a two-byte JSON length has been
\* parsed to its players.
C25_Witness ==
    /\ codec.op = "frame"
    /\ codec.done
    /\ codec.id = 0
    /\ Len(codec.json) > 127
    /\ codec.parsed.ok
    /\ codec.parsed.players.online = 5

\* C26: a frame whose packet id is not 0 is rejected with the packet-id
\* error and no body, and a frame of id 0 whose JSON is malformed is
\* rejected with another error.
C26_PacketIdRejected ==
    (codec.op = "frame" /\ codec.done) =>
        /\ codec.id # 0 =>
              /\ ~codec.parsed.ok
              /\ codec.parsed.err = "invalid-packet-id"
              /\ ~codec.parsed.truthy
              /\ codec.parsed.players = NoPlayers
        /\ (codec.id = 0 /\ ~JsonParse(codec.json).ok) =>
              /\ ~codec.parsed.ok
              /\ codec.parsed.err = "json-parse-failed"

\* A frame of id 128 around a good JSON text has been rejected.
C26_Witness ==
    /\ codec.op = "frame"
    /\ codec.done
    /\ codec.id = 128
    /\ JsonParse(codec.json).ok
    /\ ~codec.parsed.ok

\* VarInt(n) for n < 16384, written out.
Expected2(n) == IF n < 128 THEN <<n>> ELSE <<128 + (n % 128), n \div 128>>

\* The layout of the handshake payload.
Layout(host, port) ==
    <<251, 5>> \o Expected2(Len(host)) \o host \o <<port \div 256, port % 256>> \o <<1>>

\* C27: createHandshakePacket(host, port) is VarInt(763), VarInt(length of
\* host), the host, the port in two bytes big-endian, VarInt(1), for every
\* host and port; createStatusRequestPacket() is empty.
C27_HandshakeLayout ==
    /\ createStatusRequestPacket = <<>>
    /\ (codec.op = "handshake" /\ codec.done) => codec.out = Layout(codec.host, codec.port)

\* The same for the hosts whose payload fits the buffer.
C27_LayoutWithinBuffer ==
    (codec.op = "handshake" /\ codec.done /\ Len(codec.host) <= BufferSize - 7)
        => codec.out = Layout(codec.host, codec.port)

(***************************************************************************)
(* Properties of concurrent additions (SpecAdd).                           *)
(***************************************************************************)
\* C30: once every POST /api/servers request has been answered with
\* success, the stored list holds every server that was added, and the ids
\* in the stored list are pairwise distinct.
C30_NoLostUpdate ==
    (\A q \in DOMAIN reqs : reqs[q].pc = "idle") =>
        /\ \A i \in 1 .. Len(hist.added) :
              \E j \in 1 .. Len(store) : store[j] = hist.added[i]
        /\ \A j, k \in 1 .. Len(store) : store[j].id = store[k].id => j = k

(***************************************************************************)
(* Properties of the mutation handlers' answers (Spec).                    *)
(***************************************************************************)
\* Request q is answered in this step, after its saveServerList returned.
Answered(q) ==
    /\ reqs[q].pc \in { "saved", "add-saved", "del-saved" }
    /\ reqs'[q].pc = "idle"

\* C31: an add, update or delete request is answered with success only if
\* its saveServerList wrote the list; after a failed save the answer is an
\* error and the stored list is as it was.
C31_SuccessOnlyIfPersisted ==
    [][\A q \in Reqs :
          (Answered(q) /\ reqs[q].wrote = 0) => (hist'.res # 200 /\ store' = store)]_vars

(***************************************************************************)
(* Properties of the dashboard page (SpecPage).                            *)
(***************************************************************************)
\* C32: at most one loadServers / refreshAllServers call has a fetch in
\* flight; while isRefreshing is true no step issues a fetch; and
\* isRefreshing is false whenever no call is in flight, whichever way the
\* last one ended.
C32_RefreshExclusion ==
    [][/\ Len(page'.inflight) <= 1
       /\ page.isRefreshing =>
             (Len(page'.inflight) <= Len(page.inflight) /\ page'.fetches = page.fetches)
       /\ page'.inflight = <<>> => ~page'.isRefreshing]_vars

\* After a failed load, a second load is in flight and a call made
\* meanwhile was turned away.
C32_Witness ==
    /\ page.toast = "error"
    /\ page.fetches = 2
    /\ Len(page.inflight) = 1
    /\ page.isRefreshing
    /\ page.last = "skipped"

\* C33: whenever the page is loaded and visible, the auto-refresh interval
\* is running.
C33_TimerRunsWhileVisible ==
    (page.loaded /\ page.visibilityState = "visible") => page.timerLive

====
